---------------------------- MODULE Spec2Model ----------------------------
(***************************************************************************)
(* Model of the discogs-tool repository.                                   *)
(*                                                                         *)
(* Part I  : the Instagram publish flows                                   *)
(*             "post"      src/app_post_instagram.py (batch of carousels)  *)
(*             "streamlit" src/streamlit_app.py (one carousel per button)  *)
(*             "nested"    src/discogs_tool/src/app_post_instagram.py      *)
(*             "cli"       src/publish_gcs_to_ig.py (single reel)          *)
(*           together with the three implementations of ig_wait_finished.  *)
(* Part II : the video generation apps (release loading, session caches,   *)
(*           generation loop)                                              *)
(*             "videos"    src/app_discogs_to_videos.py                    *)
(*             "reels"     src/streamlit_app.py                            *)
(*             "batch"     src/discogs_tool/src/make_videos.py             *)
(***************************************************************************)
EXTENDS Integers, Sequences, FiniteSets, TLC

\* ------------------------------------------------------------------ bounds
\* Largest number of ready release folders found under the output root.
MaxReleases == 2
\* Largest number of .mp4 files in one release folder.
MaxVids == 2
\* Number of status polls that fit in the timeout window of ig_wait_finished
\* (timeout_sec divided by the sleep interval; 84 for 420 s / 5 s in the code).
PollBudget == 2
\* Largest number of tracks of a release.
MaxTracks == 2
\* Number of script runs (widget interactions) of one session that are followed.
MaxRuns == 2

VARIABLES
    \* ---- Part I: publish flows
    app,          \* which program runs
    missing,      \* configuration items that are unset (or whose file is absent)
    releases,     \* found release folders, in sorted order: number of videos of each
    choices,      \* indices of the releases selected for publication
    pc,           \* position of the handler
    rel,          \* index of the release the loop is at (0 before the loop)
    vid,          \* index i of the video the child loop is at
    children,     \* container ids appended to `children` for the current release
    parentTried,  \* ig_create_carousel_parent was called for the current release
    parentArgs,   \* the children list passed to that call
    parentOK,     \* that call returned a parent id
    pubTried,     \* ig_publish was called for the current release
    pubOK,        \* that call returned
    sheetCalls,   \* calls of add_release_to_sheet_fields for the current release
    sheetRows,    \* releases whose row was appended to the spreadsheet, in order
    log,          \* the log list of the handler
    done,         \* the done counter of the batch loop
    attempts,     \* per release: number of times the loop body ran for it
    wTarget,      \* container id ig_wait_finished is polling
    wPolls,       \* iterations of the poll loop so far
    wLast,        \* last_status of the poll loop
    waitOut,      \* how the ig_wait_finished call that has just ended ended
    polledReady,  \* containers of the current release whose most recent
                  \* polled status was ready
    \* ---- Part II: generation apps
    gApp,            \* which program runs
    runs,            \* script runs so far
    gRun,            \* what triggered the current script run
    gpc,             \* position of the script run
    gIdx,            \* track index idx the per-track loop is at
    release_info,    \* st.session_state.release_info: [id, tracks], id 0 is None;
                     \* tracks[i] is TRUE when track i has a title
    cover_ok,        \* st.session_state.cover_path names an existing file
    search_results,  \* st.session_state.search_results
    chosen_results,  \* st.session_state.chosen_results; of an entry only the
                     \* release it was produced for is kept
    issued,          \* the searches issued by the per-track block that has just run
    gDone,           \* the done counter of the generation loop
    gLogs,           \* the logs list of the generation loop
    visits,          \* tracks the generation loop went through, in order
    tempFiles,       \* clips of this run still in the release folder: <<release, idx>>
    composeTried,    \* <<release, idx>> for which make_video was called
    \* ---- Part III: media helpers called one at a time
    fpc,             \* position of the call
    fin,             \* arguments of the call and the file they name
    fout             \* what the call returned

pubVars == <<app, missing, releases, choices, pc, rel, vid, children, parentTried,
             parentArgs, parentOK, pubTried, pubOK, sheetCalls, sheetRows,
             log, done, attempts, wTarget, wPolls, wLast, waitOut, polledReady>>

genVars == <<gApp, runs, gRun, gpc, gIdx, release_info, cover_ok, issued,
             search_results, chosen_results, gDone, gLogs, visits, tempFiles,
             composeTried>>

fnVars == <<fpc, fin, fout>>

vars == <<pubVars, genVars, fnVars>>

\* ------------------------------------------------------------ vocabulary
PublishApps == {"post", "streamlit", "nested", "cli"}

Ready  == {"FINISHED", "PUBLISHED"}
Failed == {"ERROR", "EXPIRED"}
\* What one status request can give back: a status_code, a body without
\* status_code, or a failed request.
Responses == Ready \cup Failed \cup {"IN_PROGRESS", "NO_STATUS", "REQ_ERROR"}

NoContainer == <<0, 0>>
ChildId(r, v) == <<r, v>>
ParentId(r) == <<r, 0>>

Range(s) == {s[k] : k \in 1..Len(s)}

\* waitOut when no ig_wait_finished call has just ended.
NoWait == [impl |-> "none", kind |-> "none", status |-> "none",
           target |-> NoContainer, polls |-> 0]


\* --------------------------------------------------------- ig_wait_finished
\* The value the poll loop holds in `status` after one request.
\*   post, cli : a failed request is caught and becomes an error string, a
\*               body without status_code becomes "UNKNOWN"
\*   streamlit : a body without status_code gives None (a failed request
\*               raises before `status` is assigned, see ig_wait_step)
PolledStatus(impl, resp) ==
    IF impl = "streamlit"
    THEN IF resp = "NO_STATUS" THEN "None" ELSE resp
    ELSE IF resp = "NO_STATUS" THEN "UNKNOWN"
         ELSE IF resp = "REQ_ERROR" THEN "error" ELSE resp

\* Mutant of WaitStepPost: a status outside the four terminal ones that is
\* not IN_PROGRESS is taken as ready.
WaitStepPost_ReturnsOnUnknown(last, resp) ==
    LET status == PolledStatus("post", resp) IN
    IF status \in Ready \cup {"UNKNOWN"} THEN [kind |-> "return", status |-> status]
    ELSE IF status \in Failed THEN [kind |-> "RuntimeError", status |-> status]
    ELSE [kind |-> "continue", status |-> status]

\* One iteration of the poll loop of src/app_post_instagram.py.
WaitStepPost(last, resp) ==
    LET status == PolledStatus("post", resp) IN
    IF status \in Ready THEN [kind |-> "return", status |-> status]
    ELSE IF status \in Failed THEN [kind |-> "RuntimeError", status |-> status]
    ELSE [kind |-> "continue", status |-> status]

\* One iteration of the poll loop of src/streamlit_app.py: raise_for_status
\* is not caught, and ERROR / EXPIRED are not looked at.
WaitStepStreamlit(last, resp) ==
    LET status == PolledStatus("streamlit", resp) IN
    IF resp = "REQ_ERROR" THEN [kind |-> "HTTPError", status |-> last]
    ELSE IF status \in Ready THEN [kind |-> "return", status |-> status]
    ELSE [kind |-> "continue", status |-> status]

\* One iteration of the poll loop of src/publish_gcs_to_ig.py. The module
\* never imports streamlit, so every use of `st` raises NameError: st.write
\* when the status changed (show_log is True at the only call), st.success
\* and st.error on a ready or failed status.
WaitStepCli(last, resp) ==
    LET status == PolledStatus("cli", resp) IN
    IF status # last THEN [kind |-> "NameError", status |-> status]
    ELSE IF status \in Ready \cup Failed THEN [kind |-> "NameError", status |-> status]
    ELSE [kind |-> "continue", status |-> status]

ig_wait_step(impl, last, resp) ==
    CASE impl = "post"      -> WaitStepPost(last, resp)
      [] impl = "streamlit" -> WaitStepStreamlit(last, resp)
      [] OTHER              -> WaitStepCli(last, resp)

\* ------------------------------------------------------- handler dispatch
\* Mutant of AfterChildren: the batch app without its `if children:`.
AfterChildren_NoCheck(a, ch) == "create_parent"

\* Where the handler goes once the loop over the videos of a release is over.
AfterChildren(a, ch) ==
    IF a = "post"
    THEN IF ch # <<>> THEN "create_parent" ELSE "release_done"
    ELSE "create_parent"

\* Mutant of OnParentError: the except block of the batch app without its
\* recovery block.
OnParentError_NoFallback(a, ch) ==
    CASE a = "post"      -> "release_done"
      [] a = "streamlit" -> "end"
      [] OTHER           -> "crashed"

\* Where an exception raised by parent creation, parent wait or publish goes.
OnParentError(a, ch) ==
    CASE a = "post"      -> IF ch # <<>> THEN "fallback_sheet" ELSE "release_done"
      [] a = "streamlit" -> "end"
      [] OTHER           -> "crashed"

\* The loop over the videos moves on to the next video, or is over.
AdvanceVideo(ch) ==
    /\ children' = ch
    /\ IF vid < releases[rel]
       THEN /\ vid' = vid + 1
            /\ pc' = "upload"
       ELSE /\ vid' = vid
            /\ pc' = IF app = "cli" THEN "publish" ELSE AfterChildren(app, ch)

\* Mutant of ChildRaised: the child pipeline of the batch app without its
\* try / except.
ChildRaised_Propagates ==
    /\ pc' = IF app = "streamlit" THEN "end" ELSE "crashed"
    /\ UNCHANGED <<log, children, vid>>

\* An exception inside the upload / child creation / child wait of video vid.
ChildRaised ==
    CASE app = "post" ->
            /\ log' = Append(log, [k |-> "ChildERROR", r |-> rel, v |-> vid])
            /\ AdvanceVideo(children)
      [] app = "streamlit" ->
            /\ pc' = "end"
            /\ UNCHANGED <<log, children, vid>>
      [] OTHER ->
            /\ pc' = "crashed"
            /\ UNCHANGED <<log, children, vid>>

\* ig_wait_finished is over (returned or raised): control is back in the caller.
WaitEnds(kind, status) ==
    /\ waitOut' = [impl |-> app, kind |-> kind, status |-> status,
                   target |-> wTarget, polls |-> wPolls]
    /\ wTarget' = NoContainer
    /\ wPolls' = 0
    /\ wLast' = "none"
    /\ IF wTarget[2] = 0
       THEN \* the parent container
            /\ UNCHANGED <<children, vid>>
            /\ IF kind = "return"
               THEN /\ pc' = "publish"
                    /\ log' = IF app = "streamlit"
                              THEN Append(log, [k |-> "PadreOK", r |-> rel, v |-> 0])
                              ELSE log
               ELSE /\ pc' = OnParentError(app, children)
                    /\ log' = log
       ELSE \* a child container (the reel of the cli)
            IF kind = "return"
            THEN /\ log' = IF app = "cli" THEN log
                           ELSE Append(log, [k |-> "ChildOK", r |-> rel, v |-> vid])
                 /\ AdvanceVideo(Append(children, wTarget))
            ELSE ChildRaised

\* ---------------------------------------------------------- configuration
\* The storage credentials file, the bucket name, the account id and the
\* access token, read from the environment when the module is loaded.
ConfigItems == {"GCS_JSON", "GCS_BUCKET", "IG_USER_ID", "IG_TOKEN"}

\* Mutant of EnvGuard: the guard without the check of the access token.
EnvGuard_TokenUnchecked(a, m) ==
    IF m \subseteq {"IG_TOKEN"} THEN "next"
    ELSE CASE a = "post"      -> "stopped"
           [] a = "streamlit" -> "end"
           [] OTHER           -> "crashed"

\* Where the program goes once the configuration was looked at, m being the
\* missing items:
\*   "post"      if not env_ok(): st.stop()
\*   "streamlit" the handler shows an error instead of entering its try block
\*   "cli"       module-level asserts (AssertionError)
\*   "nested"    imports publish_gcs_to_ig, whose asserts run on import
EnvGuard(a, m) ==
    IF m = {} THEN "next"
    ELSE CASE a = "post"      -> "stopped"
           [] a = "streamlit" -> "end"
           [] OTHER           -> "crashed"

\* ------------------------------------------------------------------- Init
\* The release folders a run can find, and the selections the operator can
\* make. The batch app publishes any non-empty selection; the other programs
\* publish one folder (one file for the cli) per run.
ReleaseLists ==
    UNION {[1..n -> 1..MaxVids] : n \in 1..MaxReleases}

PubInit ==
    /\ app \in PublishApps
    /\ missing \in SUBSET ConfigItems
    /\ releases \in ReleaseLists
    /\ choices \in (SUBSET (1..Len(releases))) \ {{}}
    /\ app # "post" => Len(releases) = 1
    /\ app = "cli" => releases = <<1>>
    /\ pc = "start"
    /\ rel = 0
    /\ vid = 0
    /\ children = <<>>
    /\ parentTried = FALSE
    /\ parentArgs = <<>>
    /\ parentOK = FALSE
    /\ pubTried = FALSE
    /\ pubOK = FALSE
    /\ sheetCalls = 0
    /\ sheetRows = <<>>
    /\ log = <<>>
    /\ done = 0
    /\ attempts = [r \in 1..Len(releases) |-> 0]
    /\ wTarget = NoContainer
    /\ wPolls = 0
    /\ wLast = "none"
    /\ waitOut = NoWait
    /\ polledReady = {}

\* ---------------------------------------------------------------- actions
\* The configuration guard at the head of the run.
CheckEnv ==
    /\ pc = "start"
    /\ pc' = EnvGuard(app, missing)
    /\ UNCHANGED <<app, missing, releases, choices, rel, vid, children,
                   parentTried, parentArgs, parentOK, pubTried, pubOK,
                   sheetCalls, sheetRows, log, done, attempts, wTarget,
                   wPolls, wLast, waitOut, polledReady>>
    /\ UNCHANGED <<genVars, fnVars>>

\* for folder, vids, txt in releases: skip the folders that were not chosen,
\* otherwise start the body of the loop for the next one.
StartRelease ==
    /\ pc = "next"
    /\ rel < Len(releases)
    /\ rel' = rel + 1
    /\ IF (rel + 1) \in choices
       THEN /\ attempts' = [attempts EXCEPT ![rel + 1] = @ + 1]
            /\ children' = <<>>
            /\ vid' = 1
            /\ pc' = "upload"
            /\ parentTried' = FALSE
            /\ parentArgs' = <<>>
            /\ parentOK' = FALSE
            /\ pubTried' = FALSE
            /\ pubOK' = FALSE
            /\ sheetCalls' = 0
            /\ polledReady' = {}
       ELSE UNCHANGED <<attempts, children, vid, pc, parentTried, parentArgs,
                        parentOK, pubTried, pubOK, sheetCalls, polledReady>>
    /\ waitOut' = NoWait
    /\ UNCHANGED <<app, missing, releases, choices, sheetRows, log, done, wTarget,
                   wPolls, wLast>>
    /\ UNCHANGED <<genVars, fnVars>>

\* upload_signed / gcs_upload_signed / upload_to_gcs_signed of video vid.
Upload(ok) ==
    /\ pc = "upload"
    /\ IF ok
       THEN /\ pc' = "create_child"
            /\ UNCHANGED <<log, children, vid>>
       ELSE ChildRaised
    /\ waitOut' = NoWait
    /\ UNCHANGED <<app, missing, releases, choices, rel, parentTried, parentArgs,
                   parentOK, pubTried, pubOK, sheetCalls, sheetRows, done,
                   attempts, wTarget, wPolls, wLast, polledReady>>
    /\ UNCHANGED <<genVars, fnVars>>

\* Creation of the child container of video vid (the reel container of the
\* cli). The nested app appends the id at once and never waits for it.
CreateChild(ok) ==
    /\ pc = "create_child"
    /\ IF ~ok
       THEN /\ ChildRaised
            /\ UNCHANGED <<wTarget, wPolls, wLast>>
       ELSE IF app = "nested"
            THEN /\ AdvanceVideo(Append(children, ChildId(rel, vid)))
                 /\ UNCHANGED <<log, wTarget, wPolls, wLast>>
            ELSE /\ pc' = "wait"
                 /\ wTarget' = ChildId(rel, vid)
                 /\ wPolls' = 0
                 /\ wLast' = "none"
                 /\ UNCHANGED <<log, children, vid>>
    /\ waitOut' = NoWait
    /\ UNCHANGED <<app, missing, releases, choices, rel, parentTried, parentArgs,
                   parentOK, pubTried, pubOK, sheetCalls, sheetRows, done,
                   attempts, polledReady>>
    /\ UNCHANGED <<genVars, fnVars>>

\* One iteration of the poll loop of ig_wait_finished, the status request
\* giving resp; the time.sleep of an iteration that goes on is part of it.
Poll(resp) ==
    /\ pc = "wait"
    /\ wPolls < PollBudget
    /\ polledReady' = IF resp \in Ready THEN polledReady \cup {wTarget}
                      ELSE polledReady \ {wTarget}
    /\ LET o == ig_wait_step(app, wLast, resp) IN
       IF o.kind = "continue"
       THEN /\ wPolls' = wPolls + 1
            /\ wLast' = o.status
            /\ UNCHANGED <<pc, log, children, vid, wTarget, waitOut>>
       ELSE WaitEnds(o.kind, o.status)
    /\ UNCHANGED <<app, missing, releases, choices, rel, parentTried, parentArgs,
                   parentOK, pubTried, pubOK, sheetCalls, sheetRows, done,
                   attempts>>
    /\ UNCHANGED <<genVars, fnVars>>

\* The while condition fails: the timeout window is used up.
WaitTimeout ==
    /\ pc = "wait"
    /\ wPolls >= PollBudget
    /\ WaitEnds("TimeoutError", wLast)
    /\ UNCHANGED <<app, missing, releases, choices, rel, parentTried, parentArgs,
                   parentOK, pubTried, pubOK, sheetCalls, sheetRows, done,
                   attempts, polledReady>>
    /\ UNCHANGED <<genVars, fnVars>>

\* ig_create_carousel_parent(children, caption).
CreateParent(ok) ==
    /\ pc = "create_parent"
    /\ parentTried' = TRUE
    /\ parentArgs' = children
    /\ parentOK' = ok
    /\ IF ok
       THEN /\ log' = IF app = "streamlit"
                      THEN Append(log, [k |-> "PadreCreado", r |-> rel, v |-> 0])
                      ELSE log
            /\ IF app = "nested"
               THEN /\ pc' = "publish"
                    /\ UNCHANGED <<wTarget, wPolls, wLast>>
               ELSE /\ pc' = "wait"
                    /\ wTarget' = ParentId(rel)
                    /\ wPolls' = 0
                    /\ wLast' = "none"
       ELSE /\ pc' = OnParentError(app, children)
            /\ UNCHANGED <<log, wTarget, wPolls, wLast>>
    /\ waitOut' = NoWait
    /\ UNCHANGED <<app, missing, releases, choices, rel, vid, children, pubTried,
                   pubOK, sheetCalls, sheetRows, done, attempts, polledReady>>
    /\ UNCHANGED <<genVars, fnVars>>

\* ig_publish(parent) (ig_publish(creation_id) in the cli).
Publish(ok) ==
    /\ pc = "publish"
    /\ pubTried' = TRUE
    /\ pubOK' = ok
    /\ pc' = IF ok
             THEN IF app = "post" THEN "sheet" ELSE "end"
             ELSE OnParentError(app, children)
    /\ waitOut' = NoWait
    /\ UNCHANGED <<app, missing, releases, choices, rel, vid, children, parentTried,
                   parentArgs, parentOK, sheetCalls, sheetRows, log, done,
                   attempts, wTarget, wPolls, wLast, polledReady>>
    /\ UNCHANGED <<genVars, fnVars>>

\* Mutant of AfterSheetCall: add_release_to_sheet_fields without its
\* try / except, whose error then reaches the except block of the handler.
AfterSheetCall_Raises(ok, ch) == IF ok THEN "release_done" ELSE OnParentError("post", ch)

\* Where the handler goes after the success-path call of
\* add_release_to_sheet_fields: the function catches its own errors and
\* returns False, and it is the last statement of the try.
AfterSheetCall(ok, ch) == "release_done"

\* add_release_to_sheet_fields on the success path; it catches its own
\* errors and returns False, so the except block is not entered.
SheetAppend(ok) ==
    /\ pc = "sheet"
    /\ sheetCalls' = sheetCalls + 1
    /\ sheetRows' = IF ok THEN Append(sheetRows, rel) ELSE sheetRows
    /\ pc' = AfterSheetCall(ok, children)
    /\ waitOut' = NoWait
    /\ UNCHANGED <<app, missing, releases, choices, rel, vid, children, parentTried,
                   parentArgs, parentOK, pubTried, pubOK, log, done, attempts,
                   wTarget, wPolls, wLast, polledReady>>
    /\ UNCHANGED <<genVars, fnVars>>

\* add_release_to_sheet_fields in the except block ("falso negativo").
FallbackSheet(ok) ==
    /\ pc = "fallback_sheet"
    /\ sheetCalls' = sheetCalls + 1
    /\ sheetRows' = IF ok THEN Append(sheetRows, rel) ELSE sheetRows
    /\ pc' = "release_done"
    /\ waitOut' = NoWait
    /\ UNCHANGED <<app, missing, releases, choices, rel, vid, children, parentTried,
                   parentArgs, parentOK, pubTried, pubOK, log, done, attempts,
                   wTarget, wPolls, wLast, polledReady>>
    /\ UNCHANGED <<genVars, fnVars>>

\* done += 1 at the end of the loop body.
FinishRelease ==
    /\ pc = "release_done"
    /\ done' = done + 1
    /\ pc' = "next"
    /\ waitOut' = NoWait
    /\ UNCHANGED <<app, missing, releases, choices, rel, vid, children, parentTried,
                   parentArgs, parentOK, pubTried, pubOK, sheetCalls,
                   sheetRows, log, attempts, wTarget, wPolls, wLast, polledReady>>
    /\ UNCHANGED <<genVars, fnVars>>

\* The loop over the releases is over; the log is shown.
EndBatch ==
    /\ pc = "next"
    /\ rel = Len(releases)
    /\ pc' = "end"
    /\ waitOut' = NoWait
    /\ UNCHANGED <<app, missing, releases, choices, rel, vid, children, parentTried,
                   parentArgs, parentOK, pubTried, pubOK, sheetCalls,
                   sheetRows, log, done, attempts, wTarget, wPolls, wLast, polledReady>>
    /\ UNCHANGED <<genVars, fnVars>>

\* The generation apps are not running.
NoRelease == [id |-> 0, tracks |-> <<>>]
EmptyMap == <<>>

GenIdle ==
    /\ gApp = "none"
    /\ runs = 0
    /\ gRun = "none"
    /\ gpc = "off"
    /\ gIdx = 0
    /\ release_info = NoRelease
    /\ cover_ok = FALSE
    /\ search_results = EmptyMap
    /\ chosen_results = EmptyMap
    /\ issued = <<>>
    /\ gDone = 0
    /\ gLogs = <<>>
    /\ visits = <<>>
    /\ tempFiles = {}
    /\ composeTried = {}

\* No media helper is being followed.
NoCall == [fn |-> "none"]

FnIdle ==
    /\ fpc = "off"
    /\ fin = NoCall
    /\ fout = NoCall

Init == PubInit /\ GenIdle /\ FnIdle

Next ==
    \/ CheckEnv
    \/ StartRelease
    \/ \E ok \in BOOLEAN : Upload(ok)
    \/ \E ok \in BOOLEAN : CreateChild(ok)
    \/ \E resp \in Responses : Poll(resp)
    \/ WaitTimeout
    \/ \E ok \in BOOLEAN : CreateParent(ok)
    \/ \E ok \in BOOLEAN : Publish(ok)
    \/ \E ok \in BOOLEAN : SheetAppend(ok)
    \/ \E ok \in BOOLEAN : FallbackSheet(ok)
    \/ FinishRelease
    \/ EndBatch

Spec == Init /\ [][Next]_vars

\* ------------------------------------------------- claims: publish flows
\* Video v of the current release has been through its upload / child
\* creation / child wait, with or without success.
VideoDone(v) ==
    \/ v < vid
    \/ /\ v = vid
       /\ pc \notin {"next", "upload", "create_child"}
       /\ ~(pc = "wait" /\ wTarget = ChildId(rel, v))

\* The loop is in, or has just left, the body for release rel; the
\* per-release variables are those of rel (a folder that was not chosen is
\* skipped and leaves them as the previous body left them).
InBody == rel \in choices

HasLog(kind, r, v) == \E k \in 1..Len(log) : log[k] = [k |-> kind, r |-> r, v |-> v]

\* C1 (as claimed): in every carousel flow the parent container is created
\* only from children that were each polled to a ready status, and publish
\* is issued only after the parent was polled to a ready status.
C1_CarouselOrdering ==
    (app \in {"post", "streamlit", "nested"} /\ InBody) =>
        /\ parentTried => \A k \in 1..Len(parentArgs) : parentArgs[k] \in polledReady
        /\ pubTried => ParentId(rel) \in polledReady

\* C2: ig_wait_finished (batch app and streamlit app) returns normally only
\* on a last polled status FINISHED or PUBLISHED, so every child the caller
\* keeps, and every parent it publishes, was last polled ready.
C2_WaitReturnsOnlyReady ==
    /\ waitOut.kind = "return" => waitOut.status \in Ready
    /\ (app \in {"post", "streamlit"} /\ InBody) =>
          /\ \A k \in 1..Len(children) : children[k] \in polledReady
          /\ pubTried => ParentId(rel) \in polledReady

\* C2 witness: a wait that first saw a non-ready status has returned for the
\* parent, and the caller is about to publish.
C2_Witness ==
    /\ waitOut.kind = "return"
    /\ waitOut.polls >= 1
    /\ waitOut.target = ParentId(rel)
    /\ pc = "publish"

\* C3 (as claimed): in every implementation a polled ERROR or EXPIRED ends
\* the wait with RuntimeError, and TimeoutError is raised only when no
\* terminal status was the last one observed.
C3_FailureDistinctFromTimeout ==
    /\ waitOut.status \in Failed => waitOut.kind = "RuntimeError"
    /\ waitOut.kind = "TimeoutError" => waitOut.status \notin (Failed \cup Ready)

\* C4 (as claimed): the log of the batch app holds "Child OK" for every ready
\* child and an error line for every failed one, and parent creation is never
\* attempted when a child of the release failed.
C4_NoParentAfterChildFailure ==
    /\ (app = "post" /\ InBody) =>
          \A v \in 1..vid :
              VideoDone(v) =>
                  IF ChildId(rel, v) \in Range(children)
                  THEN HasLog("ChildOK", rel, v)
                  ELSE HasLog("ChildERROR", rel, v)
    /\ (app \in {"post", "streamlit"} /\ InBody) =>
          (parentTried => Len(parentArgs) = releases[rel])

\* C5 (as claimed): a spreadsheet row is appended for a release only if
\* ig_publish was called for it and succeeded.
C5_RowOnlyAfterSuccessfulPublish ==
    (app = "post" /\ InBody) =>
        \A k \in 1..Len(sheetRows) :
            sheetRows[k] = rel => (pubTried /\ pubOK)

\* C6: when ig_publish raised after the parent was ready, the spreadsheet
\* bookkeeping is still attempted for that release.
C6_BookkeepingAfterPublishError ==
    (app = "post" /\ pubTried /\ ~pubOK) =>
        (pc = "fallback_sheet" \/ sheetCalls >= 1)

\* C6 witness: publish raised, the fallback call was made and its row is in
\* the sheet.
C6_Witness ==
    /\ app = "post"
    /\ pubTried /\ ~pubOK
    /\ ParentId(rel) \in polledReady
    /\ sheetCalls = 1
    /\ rel \in Range(sheetRows)

\* C10: the publish batch never aborts on a per-release failure: every
\* selected release is attempted exactly once, no step stops the handler,
\* and the batch ends with done == total.
C10_PublishBatchNeverAborts ==
    app = "post" =>
        /\ pc # "crashed"
        /\ \A r \in 1..Len(releases) : attempts[r] <= 1
        /\ done <= Cardinality(choices)
        /\ pc \notin {"end", "stopped"} => ENABLED Next
        /\ pc = "end" =>
              /\ done = Cardinality(choices)
              /\ \A r \in 1..Len(releases) :
                    attempts[r] = IF r \in choices THEN 1 ELSE 0

\* C10 witness: a batch of two selected releases has ended; a child of the
\* first failed, its parent step failed too, and the second was published.
C10_Witness ==
    /\ app = "post"
    /\ pc = "end"
    /\ choices = {1, 2}
    /\ done = 2
    /\ \E v \in 1..MaxVids : HasLog("ChildERROR", 1, v)
    /\ 1 \notin Range(sheetRows)
    /\ 2 \in Range(sheetRows)
    /\ pubTried /\ pubOK

\* An upload, a container creation, a status poll, a publish or a
\* spreadsheet call.
ExternalCall ==
    \/ \E ok \in BOOLEAN : Upload(ok)
    \/ \E ok \in BOOLEAN : CreateChild(ok)
    \/ \E resp \in Responses : Poll(resp)
    \/ \E ok \in BOOLEAN : CreateParent(ok)
    \/ \E ok \in BOOLEAN : Publish(ok)
    \/ \E ok \in BOOLEAN : SheetAppend(ok)
    \/ \E ok \in BOOLEAN : FallbackSheet(ok)

\* C11: when the credentials file, the bucket name, the account id or the
\* access token is missing, no step of the run is an upload, a container
\* creation, a status poll, a publish or a spreadsheet call.
C11_NoSideEffectWithoutConfig ==
    [][missing # {} => ~ExternalCall]_vars

\* C11 witness: the batch app has stopped at its guard with only the access
\* token missing, nothing having been attempted.
C11_Witness ==
    /\ app = "post"
    /\ missing = {"IG_TOKEN"}
    /\ pc = "stopped"
    /\ rel = 0
    /\ log = <<>>
    /\ sheetRows = <<>>

\* The loop over the videos of the current release is over.
ChildLoopOver == InBody /\ \A v \in 1..releases[rel] : VideoDone(v)

\* The containers of the videos of the current release whose wait ended on
\* a ready status, in the order of the sorted video files.
ConfirmedChildren ==
    SelectSeq([v \in 1..releases[rel] |-> ChildId(rel, v)],
              LAMBDA c : c \in polledReady)

\* C22 (partial carousel): in the batch app, once the child loop is over,
\* children holds exactly the containers of the videos whose upload, child
\* creation and wait all succeeded, in the order of the sorted files; with
\* an empty list no parent creation, publish or spreadsheet call is made for
\* the release, and with a non-empty one the parent creation is attempted.
C22_PartialCarousel ==
    (app = "post" /\ ChildLoopOver) =>
        /\ children = ConfirmedChildren
        /\ children = <<>> => (~parentTried /\ ~pubTried /\ sheetCalls = 0)
        /\ (children # <<>> /\ pc # "create_parent") => parentTried
        /\ parentTried => parentArgs = children

\* C22 witness: of two videos the first failed and the second was polled
\* ready; the parent was created from the second alone.
C22_Witness ==
    /\ app = "post"
    /\ ChildLoopOver
    /\ releases[rel] = 2
    /\ HasLog("ChildERROR", rel, 1)
    /\ children = <<ChildId(rel, 2)>>
    /\ parentTried
    /\ parentArgs = <<ChildId(rel, 2)>>

\* C23 (poll-loop termination): in the batch app and the streamlit app a
\* call of ig_wait_finished never polls beyond its timeout window and ends
\* in one of three ways: it returns a ready status, raises the processing
\* failure error on ERROR / EXPIRED, or raises TimeoutError; a failed status
\* request does not end it.
C23_WaitEndsInThreeOutcomes ==
    app \in {"post", "streamlit"} =>
        /\ wPolls <= PollBudget
        /\ waitOut.kind # "none" =>
              /\ waitOut.polls <= PollBudget
              /\ waitOut.kind \in {"return", "RuntimeError", "TimeoutError"}
              /\ waitOut.kind = "return" => waitOut.status \in Ready
              /\ waitOut.kind = "RuntimeError" => waitOut.status \in Failed

\* C24 (single-reel flow of the cli): when the upload and the container
\* creation succeeded and a poll of the container gives FINISHED inside the
\* timeout window, ig_wait_finished returns that status and main goes on to
\* ig_publish with the container.
C24_CliFlowRunsToPublish ==
    (app = "cli" /\ waitOut.kind # "none" /\ waitOut.status = "FINISHED") =>
        /\ waitOut.kind = "return"
        /\ waitOut.target = ChildId(rel, vid)
        /\ pc = "publish"

\* C29: in one run of the publish button handler of app_post_instagram.py,
\* add_release_to_sheet_fields is called at most once for a release,
\* whatever parent creation, parent wait, publish and the spreadsheet do:
\* the success-path call and the call of the except block never both
\* happen, and no release has two rows from one batch.
C29_AtMostOneSheetCall ==
    app = "post" =>
        /\ sheetCalls <= 1
        /\ pc \in {"sheet", "fallback_sheet"} => sheetCalls = 0
        /\ \A i, j \in 1..Len(sheetRows) : sheetRows[i] = sheetRows[j] => i = j

\* C29 witness: publish succeeded, the success-path call failed to write the
\* row, and the release is over with that one call.
C29_Witness ==
    /\ app = "post"
    /\ pubTried /\ pubOK
    /\ sheetCalls = 1
    /\ rel \notin Range(sheetRows)
    /\ pc = "release_done"

\* =========================================================================
\* Part II: the generation apps
\* =========================================================================
GenApps == {"videos", "reels", "batch"}

\* Discogs URLs the operator can paste.
Urls == {1, 2}

\* URLs matter only as being that of the release held or another one: the
\* first release a session loads is called 1.
PastedUrls == IF release_info.id = 0 THEN {1} ELSE Urls

\* Track lists a fetched release can have.
TrackLists == UNION {[1..n -> BOOLEAN] : n \in 1..MaxTracks}

\* Steps of "Cargar release" (of process_release in the batch program) that
\* can fail: the input checks, fetch_release_info, the folder creation,
\* make_release_txt, the cover download; or none.
FailSteps == {"none", "input", "fetch", "folder", "txt", "cover"}

\* What fetch_release_info hands back when the load fails at failAt: nothing
\* when it is not reached or raises.
FetchedLists(failAt) ==
    IF failAt \in {"input", "fetch"} THEN {<<>>} ELSE TrackLists

\* f with key k set to v.
Put(f, k, v) == [x \in (DOMAIN f) \cup {k} |-> IF x = k THEN v ELSE f[x]]

\* The publish programs are not running.
PubIdle ==
    /\ app = "none"
    /\ missing = {}
    /\ releases = <<1>>
    /\ choices = {1}
    /\ pc = "off"
    /\ rel = 0
    /\ vid = 0
    /\ children = <<>>
    /\ parentTried = FALSE
    /\ parentArgs = <<>>
    /\ parentOK = FALSE
    /\ pubTried = FALSE
    /\ pubOK = FALSE
    /\ sheetCalls = 0
    /\ sheetRows = <<>>
    /\ log = <<>>
    /\ done = 0
    /\ attempts = <<0>>
    /\ wTarget = NoContainer
    /\ wPolls = 0
    /\ wLast = "none"
    /\ waitOut = NoWait
    /\ polledReady = {}

\* Session state as the "if ... not in st.session_state" block leaves it.
GenInit ==
    /\ gApp \in GenApps
    /\ runs = 0
    /\ gRun = "none"
    /\ gpc = "idle"
    /\ gIdx = 0
    /\ release_info = NoRelease
    /\ cover_ok = FALSE
    /\ search_results = EmptyMap
    /\ chosen_results = EmptyMap
    /\ issued = <<>>
    /\ gDone = 0
    /\ gLogs = <<>>
    /\ visits = <<>>
    /\ tempFiles = {}
    /\ composeTried = {}

\* The session caches after the go_fetch handler, which failed at failAt.
\* The handler assigns release_info right after the fetch and empties the
\* caches only as its last statements.
CachesAfterFetch(cache, failAt) ==
    IF failAt \in {"none", "cover"} THEN EmptyMap ELSE cache

\* A script run triggered by "Cargar release" with URL u, whose release has
\* the track list tl; in the batch program, the start of process_release.
\* done, logs and the rest of the handler's locals start afresh in each run.
GoFetch(u, tl, failAt) ==
    /\ gpc = "idle"
    /\ runs < MaxRuns
    /\ runs' = runs + 1
    /\ IF gApp = "batch"
       THEN /\ failAt # "input"
            /\ release_info' = IF failAt = "fetch" THEN release_info
                               ELSE [id |-> u, tracks |-> tl]
            /\ cover_ok' = (failAt = "none")
            /\ gpc' = IF failAt = "none" THEN "gen" ELSE "end"
            /\ gIdx' = IF failAt = "none" THEN 1 ELSE gIdx
            /\ gRun' = "generate"
            /\ UNCHANGED <<search_results, chosen_results>>
       ELSE /\ release_info' = IF failAt \in {"input", "fetch"} THEN release_info
                               ELSE [id |-> u, tracks |-> tl]
            /\ cover_ok' = CASE failAt = "none"  -> TRUE
                             [] failAt = "cover" -> FALSE
                             [] OTHER            -> cover_ok
            /\ search_results' = CachesAfterFetch(search_results, failAt)
            /\ chosen_results' = CachesAfterFetch(chosen_results, failAt)
            /\ IF release_info'.id # 0
               THEN gpc' = "render" /\ gIdx' = 1 /\ gRun' = "fetch"
               ELSE gpc' = "idle" /\ gIdx' = gIdx /\ gRun' = "none"
    /\ gDone' = 0
    /\ gLogs' = <<>>
    /\ visits' = <<>>
    /\ composeTried' = {}
    /\ tempFiles' = {}
    /\ UNCHANGED gApp
    /\ issued' = <<>>
    /\ UNCHANGED <<pubVars, fnVars>>

\* A script run triggered by another widget, or by the "Generar" button.
Rerun(generate) ==
    /\ gpc = "idle"
    /\ runs < MaxRuns
    /\ gApp # "batch"
    /\ release_info.id # 0
    /\ runs' = runs + 1
    /\ gRun' = IF generate THEN "generate" ELSE "rerun"
    /\ gpc' = "render"
    /\ gIdx' = 1
    /\ gDone' = 0
    /\ gLogs' = <<>>
    /\ visits' = <<>>
    /\ composeTried' = {}
    /\ tempFiles' = {}
    /\ UNCHANGED <<gApp, release_info, cover_ok, search_results,
                   chosen_results>>
    /\ issued' = <<>>
    /\ UNCHANGED <<pubVars, fnVars>>

\* Mutant of SearchQueries: the fallback query is never issued.
SearchQueries_NoFallback(n1, n2) == <<[q |-> "primary", n |-> n1]>>

\* The searches of the per-track block for a track that is not cached: the
\* primary query (label, track artist, track title), which finds n1
\* candidates, and when it finds none the fallback query (release title,
\* track title), which finds n2. yt_search answers an error with no candidates.
SearchQueries(n1, n2) ==
    IF n1 > 0 THEN <<[q |-> "primary", n |-> n1]>>
    ELSE <<[q |-> "primary", n |-> n1], [q |-> "fallback", n |-> n2]>>

\* What the per-track block writes to chosen_results for a track with
\* result entry sr: the radio choice among the results first, then the manual
\* URL, then the local file, each overwriting the one before (the "reels" app
\* has no uploader): which kind of selection, and the release it was
\* produced for; "none" when nothing is written.
SelectionAfter(a, sr, manual, local) ==
    IF local /\ a = "videos" THEN [rel |-> release_info.id, kind |-> "local"]
    ELSE IF manual THEN [rel |-> release_info.id, kind |-> "manual"]
    ELSE IF sr.n > 0 THEN [rel |-> sr.rel, kind |-> "auto"]
    ELSE [rel |-> 0, kind |-> "none"]

\* The per-track block of one script run for track gIdx: the searches unless
\* the index is cached, the result list stored under the index, then the
\* selection widgets (manual URL filled or not, local file uploaded or not).
RenderTrack(n1, n2, manual, local) ==
    /\ gpc = "render"
    /\ gIdx <= Len(release_info.tracks)
    /\ gIdx' = gIdx + 1
    /\ IF ~release_info.tracks[gIdx]
       THEN /\ issued' = <<>>
            /\ UNCHANGED <<search_results, chosen_results>>
       ELSE LET qs == IF gIdx \in DOMAIN search_results THEN <<>>
                      ELSE SearchQueries(n1, n2)
                sr == IF gIdx \in DOMAIN search_results
                      THEN search_results[gIdx]
                      ELSE [rel |-> release_info.id, n |-> qs[Len(qs)].n]
                sel == SelectionAfter(gApp, sr, manual, local)
            IN  /\ issued' = qs
                /\ search_results' = Put(search_results, gIdx, sr)
                /\ chosen_results' =
                       IF sel.kind = "none" THEN chosen_results
                       ELSE Put(chosen_results, gIdx, [rel |-> sel.rel])
    /\ UNCHANGED <<gApp, runs, gRun, gpc, release_info, cover_ok, gDone,
                   gLogs, visits, tempFiles, composeTried>>
    /\ UNCHANGED <<pubVars, fnVars>>

\* What the searches of one per-track block can answer (numbers of candidates
\* of the primary and of the fallback query): nothing is asked for a cached
\* index, and the fallback is asked only when the primary found nothing.
PrimaryAnswers == IF gIdx \in DOMAIN search_results THEN {0} ELSE 0..1

FallbackAnswers(n1) ==
    IF gIdx \in DOMAIN search_results \/ n1 > 0 THEN {0} ELSE 0..1

\* The states of the file uploader of a track: the "reels" app has none.
Uploads(a) == IF a = "videos" THEN BOOLEAN ELSE {FALSE}

\* The per-track loop is over: the run ends, or the "Generar" handler starts
\* (it stops at once without a valid cover).
AfterRender ==
    /\ gpc = "render"
    /\ gIdx > Len(release_info.tracks)
    /\ IF gRun = "generate" /\ cover_ok
       THEN gpc' = "gen" /\ gIdx' = 1 /\ gRun' = gRun
       ELSE gpc' = "idle" /\ gIdx' = gIdx /\ gRun' = "none"
    /\ UNCHANGED <<gApp, runs, release_info, cover_ok, search_results,
                   chosen_results, gDone, gLogs, visits, tempFiles,
                   composeTried>>
    /\ issued' = <<>>
    /\ UNCHANGED <<pubVars, fnVars>>

\* How the iteration of the generation loop for track t goes:
\*   "untitled"   the track has no title
\*   "nosel"      chosen_results has no entry for it ("videos", "reels")
\*   "audio"      the download / trim returned no usable file
\*   "video_fail" make_video raised
\*   "ok"         the video was written
IterationKind(a, titled, selected, audio, videoOK) ==
    IF ~titled THEN "untitled"
    ELSE IF a # "batch" /\ ~selected THEN "nosel"
    ELSE IF audio # "ok" THEN "audio"
    ELSE IF videoOK THEN "ok" ELSE "video_fail"

\* Whether the intermediate clip is on disk when the iteration ends.
\*   "videos": finally-block, unlink when the file exists
\*   "reels" : unlink only after make_video returned
\*   "batch" : unlink after the try / except
\* A failing unlink is swallowed everywhere.
ClipLeft(a, kind, delOK) ==
    CASE kind = "ok"         -> ~delOK
      [] kind = "video_fail" -> IF a = "reels" THEN TRUE ELSE ~delOK
      [] OTHER               -> FALSE

\* The lines the iteration for track t appends to logs (the batch program
\* prints them).
IterationLogs(a, t, kind, delOK) ==
    LET line(k) == [k |-> k, t |-> t]
        cleanup == IF a = "videos"
                   THEN <<line(IF delOK THEN "borrado" ELSE "no_pude_borrar")>>
                   ELSE <<>>
    IN  CASE kind = "untitled"   -> <<>>
          [] kind = "nosel"      -> <<line("SKIP")>>
          [] kind = "audio"      -> <<line("ERROR_audio")>>
          [] kind = "ok"         -> <<line("OK")>> \o cleanup
          [] kind = "video_fail" -> <<line("ERROR_video")>> \o cleanup

\* The done counter after one iteration (the batch program keeps none).
DoneAfter(a, d, kind) == IF a = "batch" THEN d ELSE d + 1

\* Mutant of AfterIteration: the generation loop without the try / except
\* around make_video, whose exception then ends the handler.
AfterIteration_Aborts(kind) == IF kind = "video_fail" THEN "idle" ELSE "gen"

\* Where control goes when the iteration ends: every branch ends in continue
\* or falls through to the end of the loop body, make_video's exception
\* being caught inside the iteration.
AfterIteration(kind) == "gen"

\* One iteration of the generation loop, for track gIdx.
GenTrack(audio, videoOK, delOK) ==
    /\ gpc = "gen"
    /\ gIdx <= Len(release_info.tracks)
    /\ LET t    == gIdx
           kind == IterationKind(gApp, release_info.tracks[t],
                                 t \in DOMAIN chosen_results, audio, videoOK)
           clip == <<release_info.id, t>>
       IN  /\ gDone' = DoneAfter(gApp, gDone, kind)
           /\ gLogs' = gLogs \o IterationLogs(gApp, t, kind, delOK)
           /\ visits' = Append(visits, [t |-> t, kind |-> kind])
           /\ composeTried' = IF kind \in {"ok", "video_fail"}
                              THEN composeTried \cup {clip} ELSE composeTried
           /\ tempFiles' = IF kind \notin {"ok", "video_fail"} THEN tempFiles
                           ELSE IF ClipLeft(gApp, kind, delOK)
                                THEN tempFiles \cup {clip}
                                ELSE tempFiles \ {clip}
           /\ gpc' = AfterIteration(kind)
    /\ gIdx' = gIdx + 1
    /\ UNCHANGED <<gApp, runs, gRun, release_info, cover_ok,
                   search_results, chosen_results>>
    /\ issued' = <<>>
    /\ UNCHANGED <<pubVars, fnVars>>

\* The generation loop is over.
GenEnd ==
    /\ gpc = "gen"
    /\ gIdx > Len(release_info.tracks)
    /\ gpc' = IF gApp = "batch" THEN "end" ELSE "idle"
    /\ gRun' = "none"
    /\ UNCHANGED <<gApp, runs, gIdx, release_info, cover_ok,
                   search_results, chosen_results, gDone, gLogs, visits,
                   tempFiles, composeTried>>
    /\ issued' = <<>>
    /\ UNCHANGED <<pubVars, fnVars>>

AudioOutcomes == {"ok", "none"}

GenSpecInit == GenInit /\ PubIdle /\ FnIdle

GenNext ==
    \/ \E u \in PastedUrls, failAt \in FailSteps :
          \E tl \in FetchedLists(failAt) : GoFetch(u, tl, failAt)
    \/ \E generate \in BOOLEAN : Rerun(generate)
    \/ \E n1 \in PrimaryAnswers :
          \E n2 \in FallbackAnswers(n1), manual \in BOOLEAN,
             local \in Uploads(gApp) : RenderTrack(n1, n2, manual, local)
    \/ AfterRender
    \/ \E audio \in AudioOutcomes, videoOK, delOK \in BOOLEAN : GenTrack(audio, videoOK, delOK)
    \/ GenEnd

GenSpec == GenSpecInit /\ [][GenNext]_vars

\* -------------------------------------------------------------------------
\* Properties of the generation apps
\* -------------------------------------------------------------------------
NumTracks == Len(release_info.tracks)

\* The generation loop has run through its last iteration.
LoopOver == gpc = "gen" /\ gIdx > NumTracks

\* Number of log lines of one of the kinds ks recorded for track t.
LinesFor(t, ks) ==
    Cardinality({i \in DOMAIN gLogs : gLogs[i].t = t /\ gLogs[i].k \in ks})

FailureLines == {"SKIP", "ERROR_audio", "ERROR_video"}
AllLines == FailureLines \cup {"OK", "borrado", "no_pude_borrar"}

\* The line the loop records for a track skipped or failed in the given way.
LineOf(kind) ==
    CASE kind = "nosel"      -> "SKIP"
      [] kind = "audio"      -> "ERROR_audio"
      [] kind = "video_fail" -> "ERROR_video"

\* C7: in the generation apps every entry of search_results and of
\* chosen_results was produced for the release currently held in release_info,
\* whichever way the earlier "Cargar release" runs ended.
C7_CachesOfCurrentRelease ==
    gApp \in {"videos", "reels"} =>
        /\ \A idx \in DOMAIN search_results :
              search_results[idx].rel = release_info.id
        /\ \A idx \in DOMAIN chosen_results :
              chosen_results[idx].rel = release_info.id

\* C8: once the iteration of a track whose video composition was attempted
\* has ended, its intermediate audio clip is no longer in the release folder,
\* whether make_video returned or raised.
C8_ClipAbsentAfterComposition ==
    \A clip \in composeTried : clip \notin tempFiles

\* The loop visits the tracks in order, one increment of done per track, and
\* when it is over, or has been left, all N tracks were visited.
VisitsAllInOrder ==
    /\ \A i \in DOMAIN visits : visits[i].t = i
    /\ gDone = Len(visits)
    /\ gpc = "gen" => gIdx = Len(visits) + 1
    /\ (LoopOver \/ (gpc # "gen" /\ visits # <<>>)) =>
           Len(visits) = NumTracks /\ gDone = NumTracks

\* C9 as stated: in the "videos" app the loop visits all N tracks in order,
\* increments done once per track, ends with done = N, and the log has a line
\* for every track that was skipped (empty title, no selection) or failed
\* (audio, video).
C9_LogLineForEverySkipOrFailure ==
    gApp = "videos" =>
        /\ VisitsAllInOrder
        /\ \A i \in DOMAIN visits :
              visits[i].kind # "ok" => LinesFor(visits[i].t, AllLines) >= 1

\* C9 amended: in the "videos" app the loop visits all N tracks in order,
\* increments done once per track, ends with done = N, and the log has
\* exactly one SKIP / ERROR line for every track without a selection or
\* failed at the audio or video step, and no line at all for a track with an
\* empty title.
C9_GenerationBatchNeverAborts ==
    gApp = "videos" =>
        /\ VisitsAllInOrder
        /\ \A i \in DOMAIN visits :
              LET t == visits[i].t
                  kind == visits[i].kind
              IN  CASE kind = "untitled" -> LinesFor(t, AllLines) = 0
                    [] kind = "ok"       -> LinesFor(t, FailureLines) = 0
                    [] OTHER             ->
                         /\ LinesFor(t, {LineOf(kind)}) = 1
                         /\ LinesFor(t, FailureLines) = 1

\* C9 witness: a two-track batch of the "videos" app is over in which
\* make_video raised and the clip could not be deleted for the first track,
\* and the second track was skipped.
C9_Witness ==
    /\ gApp = "videos"
    /\ LoopOver
    /\ Len(visits) = 2
    /\ visits[1].kind = "video_fail"
    /\ LinesFor(1, {"no_pude_borrar"}) = 1
    /\ visits[2].kind \in {"untitled", "nosel"}
    /\ gDone = 2

\* A step of the per-track block for a titled track, with the answers of the
\* searches and the states of the two input widgets.
TrackBlockStep(n1, n2, manual, local) ==
    /\ RenderTrack(n1, n2, manual, local)
    /\ release_info.tracks[gIdx]

\* A step of the per-track loop of the page that handles a titled track.
TitledTrackStep ==
    /\ gpc = "render"
    /\ gpc' = "render"
    /\ gIdx' = gIdx + 1
    /\ release_info.tracks[gIdx]

\* A "Cargar release" run that replaced the release and emptied the caches.
ReleaseLoaded ==
    \E failAt \in {"none", "cover"} :
        GoFetch(release_info'.id, release_info'.tracks, failAt)

\* C18 (selection overwrite): after the per-track block of a script run, the
\* selection held for the track is the one its inputs call for: the local
\* file if one is uploaded, else the manual URL if one is entered, else the
\* automatic candidate of the result list; with no file, no URL and no
\* candidate there is no selection for the track.
C18_SelectionFollowsInputs ==
    [][\A n1, n2 \in 0..1, manual \in BOOLEAN, local \in Uploads(gApp) :
          (gApp = "videos" /\ TrackBlockStep(n1, n2, manual, local)) =>
             LET cands == search_results'[gIdx].n
                 sel   == SelectionAfter(gApp, search_results'[gIdx],
                                         manual, local)
                 want  == IF local THEN "local"
                          ELSE IF manual THEN "manual"
                          ELSE IF cands > 0 THEN "auto"
                          ELSE "none"
             IN  /\ sel.kind = want
                 /\ (gIdx \in DOMAIN chosen_results') <=> (want # "none")
                 /\ (want # "none") => chosen_results'[gIdx].rel = sel.rel
      ]_vars

\* An iteration of the generation loop, for track gIdx.
GenTrackStep == gpc = "gen" /\ gIdx <= NumTracks /\ gIdx' = gIdx + 1

\* C28 (no stale selection): in app_discogs_to_videos.py, when the script run
\* of the "Generar" button goes through the block of a track whose cached
\* result list is empty with the manual URL field and the uploader both
\* empty, chosen_results holds no entry for the track afterwards; and the
\* generation loop logs a track without entry as skipped, with no download
\* and no composition.
C28_NoStaleSelection ==
    [][/\ \A n1, n2 \in 0..1 :
             (/\ gApp = "videos"
              /\ gRun = "generate"
              /\ TrackBlockStep(n1, n2, FALSE, FALSE)
              /\ search_results'[gIdx].n = 0) =>
                 gIdx \notin DOMAIN chosen_results'
       /\ (/\ gApp = "videos"
           /\ GenTrackStep
           /\ release_info.tracks[gIdx]
           /\ gIdx \notin DOMAIN chosen_results) =>
              /\ visits' = Append(visits, [t |-> gIdx, kind |-> "nosel"])
              /\ gLogs' = Append(gLogs, [k |-> "SKIP", t |-> gIdx])
              /\ composeTried' = composeTried
              /\ tempFiles' = tempFiles
      ]_vars

\* C19 (search fallback): the per-track block issues no search for a cached
\* index and leaves its entry alone; for an index that is not cached it
\* issues the primary query once, then the fallback query once if and only
\* if the primary found no candidate, and caches the answer of the last
\* query under the index; searches are issued nowhere else, and an entry
\* leaves the cache only when a release is loaded.
C19_SearchOncePerIndex ==
    [][/\ TitledTrackStep =>
             IF gIdx \in DOMAIN search_results
             THEN /\ issued' = <<>>
                  /\ search_results'[gIdx] = search_results[gIdx]
             ELSE /\ Len(issued') \in 1..2
                  /\ issued'[1].q = "primary"
                  /\ (Len(issued') = 2) <=> (issued'[1].n = 0)
                  /\ (Len(issued') = 2) => (issued'[2].q = "fallback")
                  /\ gIdx \in DOMAIN search_results'
                  /\ search_results'[gIdx].n = issued'[Len(issued')].n
       /\ issued' # <<>> => TitledTrackStep
       /\ (\E i \in DOMAIN search_results :
               \/ i \notin DOMAIN search_results'
               \/ search_results'[i] # search_results[i]) => ReleaseLoaded
      ]_vars

\* C19 witness: the primary query of the first track found nothing, the
\* fallback query found a candidate, and that answer is cached.
C19_Witness ==
    /\ gApp = "videos"
    /\ gpc = "render"
    /\ gIdx = 2
    /\ issued = <<[q |-> "primary", n |-> 0], [q |-> "fallback", n |-> 1]>>
    /\ 1 \in DOMAIN search_results
    /\ search_results[1].n = 1

\* =========================================================================
\* Part III: media helpers (audio extraction, video composition)
\* =========================================================================
DEFAULT_START == 90
DEFAULT_DURATION == 30
\* Tracks shorter than this many seconds are clipped around their middle.
ShortTrackSec == 150
\* Longest decoded audio that is followed, in half seconds.
MaxHalfSecs == 330

Max(a, b) == IF a >= b THEN a ELSE b
Min(a, b) == IF a <= b THEN a ELSE b

\* Python's int() of the quotient num / den (den > 0): truncation toward zero.
Trunc(num, den) == IF num >= 0 THEN num \div den ELSE -((-num) \div den)

\* The three extractors: yt_download_audio_by_url, trim_local_mp3 and the
\* batch program's yt_search_and_download_mp3.
AudioImpls == {"yt", "local", "batch"}
\* Lengths of the decoded source, in ms.
AudioLengths == {500 * h : h \in 0..MaxHalfSecs}
StartSecs == {DEFAULT_START, 160}
Durations == {DEFAULT_DURATION, 45}

AudioCalls ==
    [fn : {"audio"}, impl : AudioImpls, total_ms : AudioLengths,
     start_sec : StartSecs, duration_sec : Durations]

\* Mutant of EffStartSec: no rule for short tracks.
EffStartSec_NoRecenter(impl, total_ms, start_sec, duration_sec) == start_sec

\* Mutant of EffStartSec: only a source that ends before the configured start
\* is recentred.
EffStartSec_ShorterThanStart(impl, total_ms, start_sec, duration_sec) ==
    IF impl # "batch" /\ total_ms < start_sec * 1000
    THEN Max(0, Trunc(total_ms - duration_sec * 1000, 2000))
    ELSE start_sec

\* eff_start_sec: the configured start, or for a short track
\* max(0, int((total_sec - duration_sec) / 2)) with total_sec = total_ms / 1000.0;
\* the batch program has no such rule.
EffStartSec(impl, total_ms, start_sec, duration_sec) ==
    IF impl # "batch" /\ total_ms < ShortTrackSec * 1000
    THEN Max(0, Trunc(total_ms - duration_sec * 1000, 2000))
    ELSE start_sec

\* Mutant of ClipSpan: a source that ends before the start gives no clip.
ClipSpan_NoFallback(total_ms, start_ms, duration_ms) ==
    IF total_ms > start_ms
    THEN [from |-> start_ms, to |-> Min(start_ms + duration_ms, total_ms)]
    ELSE [from |-> 0, to |-> 0]

\* The part of the source that ends up in the clip: audio[start_ms:end_ms]
\* when the source is longer than start_ms, audio[:duration_ms] otherwise
\* (a slice stops at the end of the audio).
ClipSpan(total_ms, start_ms, duration_ms) ==
    IF total_ms > start_ms
    THEN [from |-> start_ms, to |-> Min(start_ms + duration_ms, total_ms)]
    ELSE [from |-> 0, to |-> Min(duration_ms, total_ms)]

\* The extractor returned None; lib tells whether the download, the decoding
\* and the export all went through.
NoFile(lib) ==
    [fn |-> "audio", path |-> FALSE, lib |-> lib, start_ms |-> 0,
     from |-> 0, to |-> 0]

\* What the extractor returns for call c: None when the download fails
\* (yt-dlp exits non-zero or leaves no file), when decoding raises or when
\* the export raises; the path of the exported clip otherwise.
AudioResult(c, downloadOK, decodeOK, exportOK) ==
    LET start_ms == EffStartSec(c.impl, c.total_ms, c.start_sec, c.duration_sec) * 1000
        span == ClipSpan(c.total_ms, start_ms, c.duration_sec * 1000)
    IN  IF c.impl # "local" /\ ~downloadOK THEN NoFile(FALSE)
        ELSE IF ~decodeOK \/ ~exportOK THEN NoFile(FALSE)
        ELSE [fn |-> "audio", path |-> TRUE, lib |-> TRUE,
              start_ms |-> start_ms, from |-> span.from, to |-> span.to]

\* ------------------------------------------------------------- make_video
\* Durations are counted in ticks of 1 / TicksPerSec seconds.
TicksPerSec == 20
\* epsilon = 0.10 s
Epsilon == 2
\* the 5.0 s floor
FloorDur == 100
\* side of the square canvas, in pixels
TARGET == 1080
\* Longest audio clip handed to make_video that is followed, in ticks.
MaxClipTicks == 40

\* The three composers: app_discogs_to_videos.py, make_videos.py and
\* streamlit_app.py.
VideoImpls == {"videos", "batch", "reels"}
\* duration_sec: 0 s, 1 s and the default.
ReqDurations == {0, TicksPerSec, DEFAULT_DURATION * TicksPerSec}
\* aud_clip.duration: a number of ticks, or None (known = FALSE).
ClipDurations ==
    [known : {TRUE}, t : 0..MaxClipTicks] \cup [known : {FALSE}, t : {0}]
\* Width and height of the cover image.
Sides == {540, TARGET, 1200}

VideoCalls ==
    [fn : {"video"}, impl : VideoImpls, req : ReqDurations,
     audio : ClipDurations, w : Sides, h : Sides]

\* effective_dur. `aud_clip.duration or 0` turns None into 0; streamlit_app.py
\* uses duration_sec as it is.
EffectiveDur(impl, req, audio) ==
    LET audio_dur == IF audio.known THEN audio.t ELSE 0
        safe_audio_dur == Max(0, audio_dur - Epsilon)
        dur == IF safe_audio_dur <= 0 THEN req ELSE Min(req, safe_audio_dur)
    IN  IF impl = "reels" THEN req
        ELSE IF dur <= 0
             THEN (IF audio_dur > 0 THEN audio_dur ELSE FloorDur)
             ELSE dur

\* The steps of make_video that can raise, in the order they are taken.
VideoSteps(impl) ==
    CASE impl = "videos" -> <<"image", "audio", "resize", "subclip", "write">>
      [] impl = "batch"  -> <<"image", "audio", "subclip", "resize", "write">>
      [] impl = "reels"  -> <<"image", "audio", "subclip", "write">>

\* The handles open after the steps before failAt went through: the image
\* clip, the audio clip, and the composed video from set_audio on (which
\* the batch program builds in its resize expression).
OpenedBefore(impl, failAt) ==
    CASE failAt = "image"   -> {}
      [] failAt = "audio"   -> {"image"}
      [] failAt = "resize"  -> {"image", "audio"}
      [] failAt = "subclip" -> {"image", "audio"}
      [] OTHER              -> {"image", "audio", "video"}

\* The handles make_video closes before it returns or lets the exception of
\* step failAt out:
\*   "videos" try / finally around write_videofile only, closing all three
\*   "batch"  three close() calls after write_videofile, no try
\*   "reels"  img_clip.close() and aud_clip.close() after write_videofile
ClosedAtExit(impl, failAt) ==
    CASE impl = "videos" -> IF failAt \in {"none", "write"}
                            THEN {"image", "audio", "video"} ELSE {}
      [] impl = "batch"  -> IF failAt = "none"
                            THEN {"image", "audio", "video"} ELSE {}
      [] impl = "reels"  -> IF failAt = "none" THEN {"image", "audio"} ELSE {}

\* Mutant of Scaled: the image is resized to the canvas in both dimensions.
Scaled_Stretched(impl, w, h) == <<TARGET, TARGET>>

\* Size of the image after the resize step: the side given to resize(),
\* the other one scaled in proportion and cut to an integer.
\*   "videos" height = 1080 if w < h, width = 1080 otherwise
\*   "batch"  height = 1080 always
\*   "reels"  no resize
Scaled(impl, w, h) ==
    CASE impl = "videos" -> IF w < h THEN <<(w * TARGET) \div h, TARGET>>
                            ELSE <<TARGET, (h * TARGET) \div w>>
      [] impl = "batch"  -> <<(w * TARGET) \div h, TARGET>>
      [] impl = "reels"  -> <<w, h>>

\* Size of the frame that is written: on_color(size = (1080, 1080)) where
\* there is one, the image itself otherwise.
Canvas(impl, w, h) ==
    IF impl = "reels" THEN <<w, h>> ELSE <<TARGET, TARGET>>

\* What a call c of make_video does when step failAt raises ("none": no
\* step does). The duration is there once both clips are open, the sizes
\* once the video is being written; 0 before.
VideoResult(c, failAt) ==
    [fn |-> "video", raised |-> failAt # "none",
     dur |-> IF failAt \in {"image", "audio"} THEN 0
             ELSE EffectiveDur(c.impl, c.req, c.audio),
     opened |-> OpenedBefore(c.impl, failAt),
     closed |-> ClosedAtExit(c.impl, failAt),
     scaled |-> IF failAt \in {"none", "write"}
                THEN Scaled(c.impl, c.w, c.h) ELSE <<0, 0>>,
     canvas |-> IF failAt \in {"none", "write"}
                THEN Canvas(c.impl, c.w, c.h) ELSE <<0, 0>>]

\* A call of one media helper with arguments drawn from the sets above.
\* ---- the primary search query of a track --------------------------------
\* Strings are sequences of characters; " " is the only whitespace followed.
\* Longest name or title followed, in characters.
MaxPartLen == 2

\* The strings of at most n characters over an alphabet.
StringsOver(alphabet, n) == UNION {[1..k -> alphabet] : k \in 0..n}

\* Label and artist names as fetch_release_info collects them: any string
\* that is not empty, kept as Discogs sends it.
LabelNames == StringsOver({"l", " "}, MaxPartLen) \ {<<>>}
ArtistNames == StringsOver({"r", " "}, MaxPartLen) \ {<<>>}

\* info.labels: no label, one, or two of them.
LabelLists ==
    {<<>>} \cup {<<n>> : n \in LabelNames} \cup {<<n, <<"x">>>> : n \in LabelNames}

\* t.artists: none (or an empty list), one artist, or two.
TrackArtistLists ==
    {<<>>} \cup {<<n>> : n \in ArtistNames} \cup {<< <<"r">>, <<"r">> >>}

\* info.artists: none, one without a name, or one with a name.
ReleaseArtistLists == {<<>>, << <<>> >>, << <<"v">> >>}

\* Titles of the tracks the per-track block handles: fetch_release_info
\* strips the title, and the block skips a track without one.
TrackTitles ==
    {t \in StringsOver({"t", " "}, MaxPartLen) :
        t # <<>> /\ t[1] # " " /\ t[Len(t)] # " "}

QueryCalls ==
    [fn : {"query"}, labels : LabelLists, artists : TrackArtistLists,
     relArtists : ReleaseArtistLists, title : TrackTitles]

\* sep.join(strs)
RECURSIVE StrJoin(_, _)
StrJoin(strs, sep) ==
    IF strs = <<>> THEN <<>>
    ELSE IF Len(strs) = 1 THEN strs[1]
    ELSE strs[1] \o sep \o StrJoin(Tail(strs), sep)

\* str.strip(): whitespace removed at both ends.
RECURSIVE LStrip(_)
LStrip(str) ==
    IF str # <<>> /\ str[1] = " " THEN LStrip(Tail(str)) ELSE str

RECURSIVE RStrip(_)
RStrip(str) ==
    IF str # <<>> /\ str[Len(str)] = " "
    THEN RStrip(SubSeq(str, 1, Len(str) - 1)) ELSE str

Strip(str) == RStrip(LStrip(str))

\* label = info.labels[0] if ... else ""
FirstLabel(labels) == IF labels # <<>> THEN labels[1] ELSE <<>>

\* The artists of the track joined with ", ", else the first artist of the
\* release, else "".
TrackArtist(artists, relArtists) ==
    IF artists # <<>> THEN StrJoin(artists, <<",", " ">>)
    ELSE IF relArtists # <<>> THEN relArtists[1]
    ELSE <<>>

\* Mutant of QueryOf: empty parts are joined like the others.
QueryOf_KeepsEmptyParts(parts) == Strip(StrJoin(parts, <<" ">>))

\* query = " ".join([p for p in parts if p]).strip()
QueryOf(parts) ==
    Strip(StrJoin(SelectSeq(parts, LAMBDA part : part # <<>>), <<" ">>))

\* The parts of the primary query of call c.
QueryParts(c) ==
    <<FirstLabel(c.labels), TrackArtist(c.artists, c.relArtists), c.title>>

\* ---- the price statistics of fetch_release_info -------------------------
\* Highest price followed.
MaxPrice == 2
\* None: the endpoint has no value for the field.
NoPrice == 0
Prices == 1..MaxPrice
PriceFields == {"min", "med", "max"}

\* What fetch_market_stats can return: each of lowest, median and highest
\* price present or not.
StatsResults == [PriceFields -> Prices \cup {NoPrice}]

\* What fetch_price_suggestions_approx can return: nothing (request failed,
\* no usable value), or the minimum, median and maximum of the suggestions.
SuggestionResults ==
    {[f \in PriceFields |-> NoPrice]}
    \cup {r \in [PriceFields -> Prices] : r.min <= r.med /\ r.med <= r.max}

PriceCalls == [fn : {"prices"}, stats : StatsResults, sugg : SuggestionResults]

\* The suggestion endpoint is asked only when the median or the maximum is
\* missing.
AsksSuggestions(stats) == stats.med = NoPrice \/ stats.max = NoPrice

\* "completamos solo lo que falta": pmin, pmed, pmax after the gap fill.
FilledPrices(stats, sugg) ==
    IF AsksSuggestions(stats)
    THEN [f \in PriceFields |-> IF stats[f] = NoPrice THEN sugg[f] ELSE stats[f]]
    ELSE stats

\* ------------------------------------------- release text file and caption
\* A line of text is a sequence of words; " " stands for a run of blanks and
\* <<>> is an empty line. The accented letters of the Spanish words are
\* written without accent ("Minimo:" for the line that starts with the word
\* for minimum, "Ano:" for the year).
TrackTitleWords == {"Song", "Precious"}

\* info.tracks as make_release_txt uses it: a position that is empty or not,
\* and a title.
TxtTracks ==
    UNION {[1..n -> [pos : BOOLEAN, title : TrackTitleWords]] : n \in 0..MaxTracks}

\* A release as make_release_txt sees it: which optional fields are set, and
\* whether any of the three prices is set.
CaptionCalls ==
    [fn : {"caption"}, artists : BOOLEAN, year : BOOLEAN, country : BOOLEAN,
     priced : BOOLEAN, tracks : TxtTracks]

\* A line together with the part of make_release_txt that wrote it.
Line(sect, toks) == [sect |-> sect, toks |-> toks]

\* f"{pos}{t.title}{dur}" with pos = t.position + " - " when there is one.
TrackLine(t) ==
    Line("tracks", (IF t.pos THEN <<"A1", " ", "-", " ">> ELSE <<>>) \o <<t.title>>)

\* The price section: the heading, then the three prices or "No disponible".
PriceLines(priced) ==
    <<Line("price", <<"Precios", " ", "(Discogs", " ", "Marketplace):">>)>>
    \o (IF priced
        THEN <<Line("price", <<" ", "Minimo:", " ", "1.0", " ", "USD">>),
               Line("price", <<" ", "Mediana:", " ", "2.0", " ", "USD">>),
               Line("price", <<" ", "Maximo:", " ", "3.0", " ", "USD">>)>>
        ELSE <<Line("price", <<" ", "No", " ", "disponible">>)>>)

\* The lines make_release_txt writes, in order; the "\n" in front of the
\* two headings is an empty line.
ReleaseTxt(info) ==
    <<Line("head", <<"Release:", " ", "T">>)>>
    \o (IF info.artists THEN <<Line("head", <<"Artista(s):", " ", "N">>)>> ELSE <<>>)
    \o (IF info.year THEN <<Line("head", <<"Ano:", " ", "1999">>)>> ELSE <<>>)
    \o (IF info.country THEN <<Line("head", <<"Pais:", " ", "FR">>)>> ELSE <<>>)
    \o <<Line("blank", <<>>)>>
    \o PriceLines(info.priced)
    \o <<Line("blank", <<>>), Line("tracks", <<"Tracklist:">>)>>
    \o [i \in 1..Len(info.tracks) |-> TrackLine(info.tracks[i])]

\* raw.splitlines() of the file written.
FileLines(info) == [i \in 1..Len(ReleaseTxt(info)) |-> ReleaseTxt(info)[i].toks]

\* The words of the model with which a line matches one of
\* PRICE_LINE_PATTERNS: "Precios" and "Precious" start with "Precio", the
\* other three match the patterns for minimum, median and maximum.
PriceLeadWords == {"Precios", "Precious", "Minimo:", "Mediana:", "Maximo:"}

\* re.match(pat, ln) for some pattern: every pattern is "^\s*" followed by a
\* word start, so the match is decided by the first word after the blanks.
MatchesPricePattern(ln) ==
    LET rest == LStrip(ln) IN rest # <<>> /\ rest[1] \in PriceLeadWords

\* "\n".join(lines).strip(), as a list of lines: the empty and blank lines at
\* both ends go, and so do the blanks in front of the first line and after
\* the last one.
TextStrip(lines) ==
    LET full == {i \in 1..Len(lines) : LStrip(lines[i]) # <<>>}
    IN  IF full = {} THEN <<>>
        ELSE LET a == CHOOSE i \in full : \A j \in full : i <= j
                 b == CHOOSE i \in full : \A j \in full : j <= i
             IN  [k \in 1..(b - a + 1) |->
                     LET ln == lines[a + k - 1]
                         l1 == IF k = 1 THEN LStrip(ln) ELSE ln
                     IN  IF k = b - a + 1 THEN RStrip(l1) ELSE l1]

\* strip_price_lines: (text without the matching lines, the matching lines).
strip_price_lines(lines) ==
    [kept |-> TextStrip(SelectSeq(lines, LAMBDA ln : ~MatchesPricePattern(ln))),
     prices |-> TextStrip(SelectSeq(lines, MatchesPricePattern))]

\* ------------------------------------------------------- progress bars
\* A value passed to a progress bar, as the pair <<numerator, denominator>>
\* of the exact quotient (the code computes it in floating point).
QLeq(a, b) == a[1] * b[2] <= b[1] * a[2]

\* max(1, total)
AtLeastOne(total) == IF total >= 1 THEN total ELSE 1

\* Mutant of ProgressAt: the releases already done are counted from one.
ProgressAt_OneAhead(d, i, n, total) == <<(d + 1) * n + i, n * AtLeastOne(total)>>

\* (done + (i / len(vids)) * 1) / max(1, total), at the head of the iteration
\* for video i of a release with n videos.
ProgressAt(d, i, n, total) == <<d * n + i, n * AtLeastOne(total)>>

\* done / total (done / total_tracks), after done += 1.
ProgressDone(d, total) == <<d, total>>

\* The ways an iteration of the generation loop can go.
IterationKinds == {"untitled", "nosel", "audio", "ok", "video_fail"}

\* A run of one of the two batch loops, as far as its bar is concerned: the
\* publish handler with the release folders found (number of videos of each)
\* and a non-empty selection, or the "Generar" handler with a valid cover and
\* the way each track's iteration goes.
BarCalls ==
    {c \in [fn : {"bar"}, loop : {"publish"}, releases : ReleaseLists,
            choices : SUBSET (1..MaxReleases)] :
        c.choices # {} /\ c.choices \subseteq 1..Len(c.releases)}
    \cup [fn : {"bar"}, loop : {"generate"},
          kinds : UNION {[1..n -> IterationKinds] : n \in 0..MaxTracks}]

\* The values the publish loop passes to its bar from release r on, done
\* being d: nothing for a folder that was not chosen; for a chosen one a
\* value at the head of each video iteration (outside the try, whose except
\* catches every failure of the video), then done / total after done += 1
\* (the parent step is wrapped in try / except as well).
RECURSIVE PublishValues(_, _, _, _)
PublishValues(rels, chosen, r, d) ==
    IF r > Len(rels) THEN <<>>
    ELSE IF r \notin chosen THEN PublishValues(rels, chosen, r + 1, d)
    ELSE [i \in 1..rels[r] |-> ProgressAt(d, i, rels[r], Cardinality(chosen))]
         \o <<ProgressDone(d + 1, Cardinality(chosen))>>
         \o PublishValues(rels, chosen, r + 1, d + 1)

\* The values the generation loop passes to its bar from track t on, done
\* being d: every way through the iteration ends with done += 1 and
\* progress.progress(done / total_tracks).
RECURSIVE GenerateValues(_, _, _)
GenerateValues(kinds, t, d) ==
    IF t > Len(kinds) THEN <<>>
    ELSE LET d2 == DoneAfter("videos", d, kinds[t])
         IN  <<ProgressDone(d2, Len(kinds))>> \o GenerateValues(kinds, t + 1, d2)

FnInit ==
    /\ fpc = "call"
    /\ fin \in AudioCalls \cup VideoCalls \cup QueryCalls \cup PriceCalls
                \cup CaptionCalls \cup BarCalls
    /\ fout = NoCall

\* One call of an audio extractor.
ExtractAudio(downloadOK, decodeOK, exportOK) ==
    /\ fpc = "call"
    /\ fin.fn = "audio"
    /\ fout' = AudioResult(fin, downloadOK, decodeOK, exportOK)
    /\ fpc' = "done"
    /\ UNCHANGED fin
    /\ UNCHANGED <<pubVars, genVars>>

\* One call of make_video.
MakeVideo(failAt) ==
    /\ fpc = "call"
    /\ fin.fn = "video"
    /\ failAt \in Range(VideoSteps(fin.impl)) \cup {"none"}
    /\ fout' = VideoResult(fin, failAt)
    /\ fpc' = "done"
    /\ UNCHANGED fin
    /\ UNCHANGED <<pubVars, genVars>>

\* The query construction of the per-track search block for one track.
BuildQuery ==
    /\ fpc = "call"
    /\ fin.fn = "query"
    /\ fout' = [fn |-> "query", query |-> QueryOf(QueryParts(fin))]
    /\ fpc' = "done"
    /\ UNCHANGED fin
    /\ UNCHANGED <<pubVars, genVars>>

\* The price section of one call of fetch_release_info.
FetchPrices ==
    /\ fpc = "call"
    /\ fin.fn = "prices"
    /\ fout' = [fn |-> "prices", asked |-> AsksSuggestions(fin.stats),
                prices |-> FilledPrices(fin.stats, fin.sugg)]
    /\ fpc' = "done"
    /\ UNCHANGED fin
    /\ UNCHANGED <<pubVars, genVars>>

\* build_caption_from_txt on the file make_release_txt wrote for fin: ("", "")
\* when the file cannot be read, else the stripped text without the price
\* lines and the price block.
BuildCaption(readOK) ==
    /\ fpc = "call"
    /\ fin.fn = "caption"
    /\ fout' = IF readOK
               THEN LET parts == strip_price_lines(FileLines(fin))
                    IN  [fn |-> "caption", read |-> TRUE,
                         caption |-> TextStrip(parts.kept),
                         price_block |-> parts.prices]
               ELSE [fn |-> "caption", read |-> FALSE, caption |-> <<>>,
                     price_block |-> <<>>]
    /\ fpc' = "done"
    /\ UNCHANGED fin
    /\ UNCHANGED <<pubVars, genVars>>

\* One run of a batch loop: the bar is created at 0 (st.progress(0.0),
\* st.progress(0)) and then gets the values of the loop, in order.
RunBatchBar ==
    /\ fpc = "call"
    /\ fin.fn = "bar"
    /\ fout' = [fn |-> "bar",
                values |-> <<<<0, 1>>>> \o
                    (IF fin.loop = "publish"
                     THEN PublishValues(fin.releases, fin.choices, 1, 0)
                     ELSE GenerateValues(fin.kinds, 1, 0))]
    /\ fpc' = "done"
    /\ UNCHANGED fin
    /\ UNCHANGED <<pubVars, genVars>>

FnSpecInit == FnInit /\ PubIdle /\ GenIdle

FnNext ==
    \/ \E downloadOK, decodeOK, exportOK \in BOOLEAN :
          ExtractAudio(downloadOK, decodeOK, exportOK)
    \/ \E failAt \in {"none", "image", "audio", "resize", "subclip", "write"} :
          MakeVideo(failAt)
    \/ BuildQuery
    \/ FetchPrices
    \/ \E readOK \in BOOLEAN : BuildCaption(readOK)
    \/ RunBatchBar

FnSpec == FnSpecInit /\ [][FnNext]_vars

\* An audio extractor has returned a path.
Extracted == fpc = "done" /\ fin.fn = "audio" /\ fout.path

C13_ClipFromZero ==
    (fpc = "done" /\ fin.fn = "audio" /\ fout.lib) =>
        LET start_ms == EffStartSec(fin.impl, fin.total_ms, fin.start_sec,
                                    fin.duration_sec) * 1000
        IN  fin.total_ms <= start_ms =>
                /\ fout.path
                /\ fout.from = 0
                /\ fout.to = Min(fin.duration_sec * 1000, fin.total_ms)

\* C13 witness: the batch extractor got a 60 s source with start 90 and
\* returned the clip 0 s - 30 s.
C13_Witness ==
    /\ Extracted
    /\ fin.impl = "batch"
    /\ fin.total_ms = 60000
    /\ fin.start_sec = DEFAULT_START
    /\ fin.duration_sec = DEFAULT_DURATION
    /\ fout.from = 0 /\ fout.to = 30000

\* C14: yt_download_audio_by_url and trim_local_mp3 return no path when the
\* trimmed result is zero-length.
C14_NoPathForEmptyClip ==
    (Extracted /\ fin.impl # "batch") => fout.to > fout.from

\* The extractor of the main app was called with the default start (90 s) and
\* duration (30 s) and exported a clip.
DefaultClip ==
    /\ Extracted
    /\ fin.impl \in {"yt", "local"}
    /\ fin.start_sec = DEFAULT_START
    /\ fin.duration_sec = DEFAULT_DURATION

\* C26: with start 90 s, duration 30 s and the 150 s threshold, the clip of
\* yt_download_audio_by_url and trim_local_mp3 is never longer than 30 s, and
\* for a source of at least 30 s it is exactly 30 s long, cut from the window
\* [start, start + 30 s] that lies entirely inside the source.
C26_DefaultClipIsThirtySeconds ==
    DefaultClip =>
        /\ fout.to - fout.from <= DEFAULT_DURATION * 1000
        /\ fin.total_ms >= DEFAULT_DURATION * 1000 =>
               /\ fout.to - fout.from = DEFAULT_DURATION * 1000
               /\ fout.from = fout.start_ms
               /\ fout.to = fout.start_ms + DEFAULT_DURATION * 1000
               /\ 0 <= fout.from /\ fout.to <= fin.total_ms

\* C26 witness: an uploaded mp3 of 110 s was trimmed with the defaults; the
\* clip is the 30 s from 40 s to 70 s.
C26_Witness ==
    /\ DefaultClip
    /\ fin.impl = "local"
    /\ fin.total_ms = 110000
    /\ fout.from = 40000 /\ fout.to = 70000

\* make_video has run, to its end or to an exception.
Composed == fpc = "done" /\ fin.fn = "video"
\* make_video has returned.
Written == Composed /\ ~fout.raised

\* C15: make_video of app_discogs_to_videos.py and of make_videos.py uses the
\* duration min(requested, max(0, audio - 0.10)), and when that is not
\* positive the full audio duration or the 5 s floor.
C15_ComposedDuration ==
    (Written /\ fin.impl \in {"videos", "batch"}) =>
        LET audio_dur == IF fin.audio.known THEN fin.audio.t ELSE 0
            d == Min(fin.req, Max(0, audio_dur - Epsilon))
        IN  IF d > 0 THEN fout.dur = d
            ELSE fout.dur \in {audio_dur, FloorDur}

\* C16: whichever step of make_video raises, every handle that was opened is
\* closed when make_video returns or lets the exception out.
C16_HandlesClosedOnEveryExit ==
    Composed => fout.opened \subseteq fout.closed

\* C17: make_video of app_discogs_to_videos.py and of make_videos.py scales
\* an image narrower than tall to height 1080, any other to width 1080,
\* keeps the proportions, and writes a 1080 x 1080 canvas that the scaled
\* image fits in.
C17_SquareOutputGeometry ==
    (Written /\ fin.impl \in {"videos", "batch"}) =>
        /\ fout.canvas = <<TARGET, TARGET>>
        /\ IF fin.w < fin.h
           THEN /\ fout.scaled[2] = TARGET
                /\ fout.scaled[1] = (fin.w * TARGET) \div fin.h
                /\ fout.scaled[1] <= TARGET
           ELSE /\ fout.scaled[1] = TARGET
                /\ fout.scaled[2] = (fin.h * TARGET) \div fin.w
                /\ fout.scaled[2] <= TARGET

\* The primary query of a track has been built.
QueryBuilt == fpc = "done" /\ fin.fn = "query"

\* A part followed by its separator, nothing for an empty part.
WithSep(part) == IF part = <<>> THEN <<>> ELSE part \o <<" ">>

\* C20 as stated: the primary query is the non-empty parts among first
\* label, track artist and track title, in that order, joined by single
\* spaces.
C20_QueryIsJoinedParts ==
    QueryBuilt =>
        fout.query = WithSep(FirstLabel(fin.labels))
                     \o WithSep(TrackArtist(fin.artists, fin.relArtists))
                     \o fin.title

\* C20 (query construction), amended: the primary query is the non-empty
\* parts among first label, track artist and track title, in that order,
\* joined by single spaces, with the whitespace at both ends of the joined
\* string removed; with no label and no artist it is the title alone, which
\* neither starts nor ends with a space.
C20_QueryConstruction ==
    QueryBuilt =>
        LET label  == FirstLabel(fin.labels)
            artist == TrackArtist(fin.artists, fin.relArtists)
        IN  /\ fout.query = Strip(WithSep(label) \o WithSep(artist) \o fin.title)
            /\ (label = <<>> /\ artist = <<>>) =>
                  /\ fout.query = fin.title
                  /\ fout.query[1] # " "
                  /\ fout.query[Len(fout.query)] # " "

\* C20 witness: a label whose name starts with a space, a track artist and
\* a title give the query "l r t".
C20_Witness ==
    /\ QueryBuilt
    /\ fin.labels = << <<" ", "l">> >>
    /\ fin.artists = << <<"r">> >>
    /\ fin.title = <<"t">>
    /\ fout.query = <<"l", " ", "r", " ", "t">>

\* fetch_release_info has settled the three prices.
PricesFetched == fpc = "done" /\ fin.fn = "prices"

\* C21 (price gap-fill): a price the primary stats endpoint gave is kept; a
\* price it left missing is the value of the suggestion endpoint whenever
\* that endpoint has one, and stays missing otherwise.
C21_PriceGapFill ==
    PricesFetched =>
        \A f \in PriceFields :
            fout.prices[f] = IF fin.stats[f] # NoPrice THEN fin.stats[f]
                             ELSE fin.sugg[f]

CaptionBuilt == fpc = "done" /\ fin.fn = "caption" /\ fout.read

\* The lines of the file that make_release_txt wrote outside / inside its
\* price section.
WrittenLines(info, sects) ==
    LET txt == ReleaseTxt(info)
        sel == SelectSeq(txt, LAMBDA l : l.sect \in sects)
    IN  [i \in 1..Len(sel) |-> sel[i].toks]

\* C27: for every file written by make_release_txt, with prices or without,
\* the default caption of build_caption_from_txt contains no line of the
\* price section and keeps every other line, in the original order.
C27_CaptionExcludesPriceBlock ==
    CaptionBuilt =>
        /\ \A ln \in Range(WrittenLines(fin, {"price"})) : ln \notin Range(fout.caption)
        /\ fout.caption = WrittenLines(fin, {"head", "blank", "tracks"})

\* A batch loop has run to its end.
BatchRan == fpc = "done" /\ fin.fn = "bar"

\* C30 (progress counter bounds): in both batch loops every value passed to
\* the progress bar lies in [0, 1] and the values never decrease during the
\* batch; in the publish loop no value, (done + i / len(vids)) / max(1, total)
\* included, exceeds 1, and the last value is exactly 1 (as it is in the
\* generation loop whenever the release has a track).
C30_ProgressBounds ==
    BatchRan =>
        LET v == fout.values
        IN  /\ \A k \in 1..Len(v) : v[k][2] > 0 /\ 0 <= v[k][1] /\ v[k][1] <= v[k][2]
            /\ \A k \in 1..(Len(v) - 1) : QLeq(v[k], v[k + 1])
            /\ fin.loop = "publish" => v[Len(v)][1] = v[Len(v)][2]
            /\ (fin.loop = "generate" /\ fin.kinds # <<>>) =>
                   v[Len(v)][1] = v[Len(v)][2]

\* C30 witness: the publish loop ran over two selected releases of two
\* videos each; the bar went 0, 1/4, 2/4, 1/2, 3/4, 4/4, 2/2.
C30_Witness ==
    /\ BatchRan
    /\ fin.loop = "publish"
    /\ fin.releases = <<2, 2>>
    /\ fin.choices = {1, 2}
    /\ fout.values = <<<<0, 1>>, <<1, 4>>, <<2, 4>>, <<1, 2>>, <<3, 4>>, <<4, 4>>, <<2, 2>>>>

=============================================================================
